---- MODULE Spec2Model ----
(***************************************************************************)
(* Model of the movie-releases bot: the message loop's subscribe handler,  *)
(* its datastore transaction, and the notifier task served over HTTP.     *)
(*                                                                         *)
(* Time is counted in hours.  Release dates are calendar dates (midnight), *)
(* so they are multiples of 24; the zero time.Time is ZeroTime.            *)
(*                                                                         *)
(* The datastore is the shared state.  Its documented behaviour is used:   *)
(*   - GetAll returns the stored entities in key order;                    *)
(*   - Put outside a transaction overwrites the entity unconditionally;    *)
(*   - RunInTransaction runs its function, and the commit fails with       *)
(*     ErrConcurrentTransaction when an entity the transaction read was    *)
(*     written in between; the function is then run again, MaxAttempts     *)
(*     times in all, after which the error is returned to the caller.      *)
(***************************************************************************)
EXTENDS Integers, Sequences, FiniteSets, TLC

\* ---------------------------------------------------------------- bounds
MaxNow == 300          \* the clock stops advancing here
TickHours == 96        \* the clock advances in steps of this many hours
StartNow == 1          \* wall clock when the program is first started
FineHours == 11        \* the step of the clock where the hour of the day matters
MaxResults == 2        \* longest catalog response
MaxQueryResults == 3   \* longest catalog response where queryMovies is looked at
MaxRestarts == 1       \* how often the process is started again after a fatal error
SentCap == 2           \* the notification counters saturate here

\* ------------------------------------------------------ program constants
ZeroTime == 0          \* the zero time.Time of a result with an empty date
MaxAttempts == 3       \* attempts of datastore.RunInTransaction
HoursPerDay == 24
WindowDays == 7
StatusOK == 200        \* the only status code queryMovies accepts

inOneWeekOffset == WindowDays * HoursPerDay

Procs == {1, 2}        \* running instances of the program (message loops)
Workers == {1, 2}      \* HTTP requests to /tasks/notify in flight in instance 1
Chats == {1, 2}        \* chat identifiers

\* The movie catalog: the results the search endpoint can return, as they are
\* in the JSON body.  Times are counted from the zero time.Time, so the dates
\* are days of January of year 1: the 9th is hour 192, the 13th hour 288.
Catalog ==
  { [ID |-> 1, Title |-> "Alita", ReleaseDate |-> "0001-01-09"],
    [ID |-> 2, Title |-> "Climax", ReleaseDate |-> "0001-01-13"],
    [ID |-> 3, Title |-> "Julia", ReleaseDate |-> ""] }

IDs == {m.ID : m \in Catalog}

NoRecord == [ID |-> 0]

VARIABLES
  store,      \* datastore kind "MovieRelease": key (catalog id) -> record or NoRecord
  clock,      \* time.Now()
  alive,      \* alive[p]: instance p has not died in log.Fatalf
  restarts,   \* number of restarts so far
  loop,       \* loop[p]: position and locals of the message loop of instance p
  task,       \* task[w]: position and locals of one handleTaskNotify call
  sent,       \* sent[id][chat]: notifications sent so far (saturating at SentCap)
  acked,      \* the (id, chat) pairs of the subscribes answered "Done!" so far
  io          \* the external effect of the last step (store write, message sent)

vars == <<store, clock, alive, restarts, loop, task, sent, acked, io>>

\* ------------------------------------------------------------ pure helpers
Min(a, b) == IF a < b THEN a ELSE b

\* time.Time.After / Before
After(t, u) == t > u
Before(t, u) == t < u

\* ------------------------------------------------------------------ strings
\* s[i-1] and s[i-1:j] of Go, empty where s has no such position
Char(s, i) == IF i \in 1..Len(s) THEN SubSeq(s, i, i) ELSE ""
Sub(s, i, j) == SubSeq(s, i, Min(j, Len(s)))
Rest(s, i) == SubSeq(s, i, Len(s))

\* the position of character ch in the string alphabet, 0 when it is not there
RECURSIVE IndexIn(_, _, _)
IndexIn(ch, alphabet, i) ==
  IF i > Len(alphabet) THEN 0
  ELSE IF Char(alphabet, i) = ch THEN i
  ELSE IndexIn(ch, alphabet, i + 1)

UpperCase == "ABCDEFGHIJKLMNOPQRSTUVWXYZ"
LowerCase == "abcdefghijklmnopqrstuvwxyz"
Digits == "0123456789"
WhiteSpace == " \t\n\r"

\* strings.ToLower
RECURSIVE ToLower(_)
ToLower(s) ==
  IF s = "" THEN ""
  ELSE LET i == IndexIn(Char(s, 1), UpperCase, 1)
       IN (IF i = 0 THEN Char(s, 1) ELSE Char(LowerCase, i)) \o ToLower(Rest(s, 2))

IsSpace(ch) == IndexIn(ch, WhiteSpace, 1) # 0

\* strings.TrimSpace
RECURSIVE TrimLeft(_)
TrimLeft(s) ==
  IF s # "" /\ IsSpace(Char(s, 1)) THEN TrimLeft(Rest(s, 2)) ELSE s
RECURSIVE TrimRight(_)
TrimRight(s) ==
  IF s # "" /\ IsSpace(Char(s, Len(s))) THEN TrimRight(SubSeq(s, 1, Len(s) - 1))
  ELSE s
TrimSpace(s) == TrimRight(TrimLeft(s))

\* strings.Index + 1: the first position where substr starts in s, 0 if none
RECURSIVE IndexFrom(_, _, _)
IndexFrom(s, substr, i) ==
  IF i + Len(substr) - 1 > Len(s) THEN 0
  ELSE IF SubSeq(s, i, i + Len(substr) - 1) = substr THEN i
  ELSE IndexFrom(s, substr, i + 1)

\* strings.Contains
Contains(s, substr) == IndexFrom(s, substr, 1) # 0

IsDigit(ch) == IndexIn(ch, Digits, 1) # 0
AllDigits(s) == \A i \in 1..Len(s) : IsDigit(Char(s, i))

\* the number written by a string of digits
RECURSIVE Atoi(_)
Atoi(s) ==
  IF s = "" THEN 0
  ELSE 10 * Atoi(SubSeq(s, 1, Len(s) - 1)) + (IndexIn(Char(s, Len(s)), Digits, 1) - 1)

\* ------------------------------------------------------- the command patterns
\* FindStringSubmatch of the four patterns: the leftmost match, optional and
\* repeated parts taking as much as they can, earlier parts first; the result
\* is the match followed by its groups, <<>> for nil

\* the last position of the run of characters matched by ".+" from b on
\* (b - 1 when there is none): "." matches every character but a newline
RECURSIVE DotEnd(_, _)
DotEnd(s, b) ==
  IF b > Len(s) \/ Char(s, b) = "\n" THEN b - 1 ELSE DotEnd(s, b + 1)

\* subscribeCommand = "subscribe to (.+)"
RECURSIVE SubscribeFrom(_, _)
SubscribeFrom(text, from) ==
  LET i == IndexFrom(text, "subscribe to ", from)
      b == i + Len("subscribe to ")
      e == DotEnd(text, b)
  IN IF i = 0 THEN <<>>
     ELSE IF e >= b THEN <<SubSeq(text, i, e), SubSeq(text, b, e)>>
     ELSE SubscribeFrom(text, i + 1)
MatchSubscribe(text) == SubscribeFrom(text, 1)

\* listSubscriptionsCommand = "list subscriptions?"
MatchList(text) ==
  LET i == IndexFrom(text, "list subscription", 1)
      e == i + Len("list subscription")
  IN IF i = 0 THEN <<>>
     ELSE <<SubSeq(text, i, e - 1) \o (IF Char(text, e) = "s" THEN "s" ELSE "")>>

\* the ways to take the optional parts "s?", " ?" and "(exact)?", in the order
\* the matcher tries them
ReleaseOptions ==
  << <<TRUE, TRUE, TRUE>>, <<TRUE, TRUE, FALSE>>, <<TRUE, FALSE, TRUE>>,
     <<TRUE, FALSE, FALSE>>, <<FALSE, TRUE, TRUE>>, <<FALSE, TRUE, FALSE>>,
     <<FALSE, FALSE, TRUE>>, <<FALSE, FALSE, FALSE>> >>

\* the position after "release" at i and its optional parts taken as o says,
\* 0 when the text does not have them there
AfterOptions(text, i, o) ==
  LET p0 == i + Len("release")
      p1 == IF o[1] THEN p0 + 1 ELSE p0
      p2 == IF o[2] THEN p1 + 1 ELSE p1
      p3 == IF o[3] THEN p2 + Len("exact") ELSE p2
  IN IF /\ o[1] => Char(text, p0) = "s"
        /\ o[2] => Char(text, p1) = " "
        /\ o[3] => Sub(text, p2, p3 - 1) = "exact"
     THEN p3 ELSE 0

\* the end of the longest title from b on that is followed by " year " and
\* four digits, 0 when there is none
RECURSIVE YearTitleEnd(_, _, _)
YearTitleEnd(text, b, k) ==
  IF k < b THEN 0
  ELSE IF /\ Sub(text, k + 1, k + 6) = " year "
          /\ k + 10 <= Len(text)
          /\ AllDigits(SubSeq(text, k + 7, k + 10))
  THEN k
  ELSE YearTitleEnd(text, b, k - 1)

\* the match starting at i with the optional parts taken as ReleaseOptions[n],
\* or as the first later way that gives one
RECURSIVE ReleaseAt(_, _, _, _)
ReleaseAt(text, i, n, withYear) ==
  IF n > Len(ReleaseOptions) THEN <<>>
  ELSE LET o == ReleaseOptions[n]
           p == AfterOptions(text, i, o)
           b == p + 1
           e == DotEnd(text, b)
           k == YearTitleEnd(text, b, e)
           exact == IF o[3] THEN "exact" ELSE ""
       IN IF p = 0 \/ Char(text, p) # " " \/ e < b
          THEN ReleaseAt(text, i, n + 1, withYear)
          ELSE IF ~withYear
          THEN <<SubSeq(text, i, e), exact, SubSeq(text, b, e)>>
          ELSE IF k # 0
          THEN <<SubSeq(text, i, k + 10), exact, SubSeq(text, b, k),
                 SubSeq(text, k + 7, k + 10)>>
          ELSE ReleaseAt(text, i, n + 1, withYear)

RECURSIVE ReleaseFrom(_, _, _)
ReleaseFrom(text, from, withYear) ==
  LET i == IndexFrom(text, "release", from)
      m == ReleaseAt(text, i, 1, withYear)
  IN IF i = 0 THEN <<>>
     ELSE IF m # <<>> THEN m
     ELSE ReleaseFrom(text, i + 1, withYear)

\* releaseCommand = "releases? ?(exact)? (.+)"
MatchRelease(text) == ReleaseFrom(text, 1, FALSE)
\* releaseYearCommand = "releases? ?(exact)? (.+) year ([0-9]{4})"
MatchReleaseYear(text) == ReleaseFrom(text, 1, TRUE)

\* -------------------------------------------------------------------- dates
\* Times are hours since the zero time.Time, January 1 of year 1, 00:00 UTC.
IsLeap(y) == y % 4 = 0 /\ (y % 100 # 0 \/ y % 400 = 0)
DaysBeforeMonth == <<0, 31, 59, 90, 120, 151, 181, 212, 243, 273, 304, 334, 365>>
MonthNames == <<"Jan", "Feb", "Mar", "Apr", "May", "Jun",
                "Jul", "Aug", "Sep", "Oct", "Nov", "Dec">>
DaysIn(y, m) ==
  DaysBeforeMonth[m + 1] - DaysBeforeMonth[m] + (IF m = 2 /\ IsLeap(y) THEN 1 ELSE 0)
DaysBeforeYear(y) ==
  365 * (y - 1) + ((y - 1) \div 4) - ((y - 1) \div 100) + ((y - 1) \div 400)
\* days from the zero time to the given date
DaysSinceZero(y, m, d) ==
  DaysBeforeYear(y) + DaysBeforeMonth[m] + (IF m > 2 /\ IsLeap(y) THEN 1 ELSE 0)
    + (d - 1)

\* time.Parse("2006-01-02", s): four digits, two digits, two digits, a month
\* and a day that exist; on an error the zero time is returned with it
ParseDate(s) ==
  IF \/ Len(s) # 10
     \/ Char(s, 5) # "-" \/ Char(s, 8) # "-"
     \/ ~AllDigits(SubSeq(s, 1, 4) \o SubSeq(s, 6, 7) \o SubSeq(s, 9, 10))
  THEN [err |-> TRUE, t |-> ZeroTime]
  ELSE LET y == Atoi(SubSeq(s, 1, 4))
           m == Atoi(SubSeq(s, 6, 7))
           d == Atoi(SubSeq(s, 9, 10))
       IN IF m \notin 1..12 \/ d < 1 \/ d > DaysIn(y, m)
          THEN [err |-> TRUE, t |-> ZeroTime]
          ELSE [err |-> FALSE, t |-> HoursPerDay * DaysSinceZero(y, m, d)]

\* time.Time.Year, Month, Day of a time given in hours; the search for the
\* year starts from a year that is not after it
RECURSIVE YearFrom(_, _)
YearFrom(y, days) == IF days < DaysBeforeYear(y + 1) THEN y ELSE YearFrom(y + 1, days)
Year(t) == YearFrom(((t \div HoursPerDay) \div 366) + 1, t \div HoursPerDay)
YearDay(t) == (t \div HoursPerDay) - DaysBeforeYear(Year(t))
RECURSIVE MonthFrom(_, _, _)
MonthFrom(m, y, yday) ==
  IF yday < DaysSinceZero(y, m, 1) - DaysBeforeYear(y) + DaysIn(y, m) THEN m
  ELSE MonthFrom(m + 1, y, yday)
Month(t) == MonthFrom(1, Year(t), YearDay(t))
Day(t) == YearDay(t) - (DaysSinceZero(Year(t), Month(t), 1) - DaysBeforeYear(Year(t))) + 1

\* a number written with at least four digits (the "2006" of a layout)
Pad4(n) ==
  (IF n < 10 THEN "000" ELSE IF n < 100 THEN "00" ELSE IF n < 1000 THEN "0" ELSE "")
    \o ToString(n)

\* time.Time.Format("2 Jan 2006")
FormatDate(t) ==
  ToString(Day(t)) \o " " \o MonthNames[Month(t)] \o " " \o Pad4(Year(t))

\* Insert x into a sequence sorted by ReleaseTime descending.
RECURSIVE InsertDesc(_, _)
InsertDesc(x, s) ==
  IF s = <<>> THEN <<x>>
  ELSE IF Before(Head(s).ReleaseTime, x.ReleaseTime) THEN <<x>> \o s
  ELSE <<Head(s)>> \o InsertDesc(x, Tail(s))

\* faulty variant: the results are left in the order of the response
SortDesc_Unsorted(s) == s

\* sort.Sort(sort.Reverse(data.Results)) with Less = ReleaseTime.Before: for
\* the short lists of a response sort.Sort is an insertion sort, which moves
\* each element left past the elements that are Less in the reversed order
RECURSIVE SortDesc(_)
SortDesc(s) ==
  IF s = <<>> THEN <<>>
  ELSE InsertDesc(s[Len(s)], SortDesc(SubSeq(s, 1, Len(s) - 1)))

\* faulty variant: a date that does not parse is taken for an empty one
ParseResult_Lenient(r) ==
  [err |-> FALSE,
   result |-> [ID |-> r.ID, Title |-> r.Title, ReleaseDate |-> r.ReleaseDate,
               ReleaseTime |-> IF r.ReleaseDate = "" THEN ZeroTime
                               ELSE ParseDate(r.ReleaseDate).t]]

\* one iteration of the loop over data.Results: an empty date is passed
\* over, any other is parsed, and ReleaseTime is set
ParseResult(r) ==
  LET parsed == IF r.ReleaseDate = "" THEN [err |-> FALSE, t |-> ZeroTime]
                ELSE ParseDate(r.ReleaseDate)
  IN [err |-> parsed.err,
      result |-> [ID |-> r.ID, Title |-> r.Title, ReleaseDate |-> r.ReleaseDate,
                  ReleaseTime |-> parsed.t]]

\* the loop over data.Results: it returns at the first date that fails
RECURSIVE ParseResults(_)
ParseResults(results) ==
  IF results = <<>> THEN [err |-> FALSE, results |-> <<>>]
  ELSE LET first == ParseResult(Head(results))
           rest == ParseResults(Tail(results))
       IN IF first.err \/ rest.err THEN [err |-> TRUE, results |-> <<>>]
          ELSE [err |-> FALSE, results |-> <<first.result>> \o rest.results]

\* queryMovies on the response of the search endpoint: (results, error)
queryMovies(resp) ==
  IF resp.status # StatusOK THEN [err |-> TRUE, results |-> <<>>]
  ELSE LET parsed == ParseResults(resp.results)
       IN IF parsed.err THEN [err |-> TRUE, results |-> <<>>]
          ELSE [err |-> FALSE, results |-> SortDesc(parsed.results)]

\* faulty variant: every result is taken, whatever its date
RECURSIVE Upcoming_Any(_, _)
Upcoming_Any(results, now) ==
  IF results = <<>> THEN <<>>
  ELSE << [ID |-> Head(results).ID,
           MovieTitle |-> Head(results).Title,
           ReleaseDate |-> Head(results).ReleaseTime,
           Subscribers |-> <<>>] >> \o Upcoming_Any(Tail(results), now)

\* for _, res := range results { if res.ReleaseTime.After(now) { append } }
RECURSIVE Upcoming(_, _)
Upcoming(results, now) ==
  IF results = <<>> THEN <<>>
  ELSE (IF After(Head(results).ReleaseTime, now)
        THEN << [ID |-> Head(results).ID,
                 MovieTitle |-> Head(results).Title,
                 ReleaseDate |-> Head(results).ReleaseTime,
                 Subscribers |-> <<>>] >>
        ELSE <<>>) \o Upcoming(Tail(results), now)

\* faulty variant: only the first Subscriber is looked at
HasSubscriber_First(rec, chat) ==
  Len(rec.Subscribers) >= 1 /\ rec.Subscribers[1].ChatID = chat

\* faulty variant: the stored Subscriber is compared with the new one as a whole
HasSubscriber_WholeStruct(rec, chat) ==
  \E i \in 1..Len(rec.Subscribers) :
    rec.Subscribers[i] = [ChatID |-> chat, Notified |-> FALSE]

\* the loop "Check if user already subscribed to movie release"
HasSubscriber(rec, chat) ==
  \E i \in 1..Len(rec.Subscribers) : rec.Subscribers[i].ChatID = chat

\* txRelease.Subscribers = append(txRelease.Subscribers, sub)
AppendSubscriber(rec, chat) ==
  [rec EXCEPT !.Subscribers = Append(@, [ChatID |-> chat, Notified |-> FALSE])]

\* faulty variant: the test that the release is still to come is missing
InWindow_NoAfter(date, now) == Before(date, now + inOneWeekOffset)

\* the window test of handleTaskNotify
InWindow(date, now) == After(date, now) /\ Before(date, now + inOneWeekOffset)

\* faulty variant: the days are rounded down
DaysCeil_Floor(h) == h \div HoursPerDay

\* math.Ceil(d.Hours() / 24) for a duration of h > 0 hours
DaysCeil(h) == (h + HoursPerDay - 1) \div HoursPerDay

\* datastore GetAll: the stored entities in key order
RECURSIVE ScanFrom(_, _)
ScanFrom(st, k) ==
  IF k \notin IDs THEN <<>>
  ELSE (IF st[k] = NoRecord THEN <<>> ELSE <<st[k]>>) \o ScanFrom(st, k + 1)
GetAll(st) == ScanFrom(st, 1)

\* catalog responses: sequences without repetition of at most MaxResults entries
RECURSIVE Responses(_)
Responses(n) ==
  IF n = 0 THEN {<<>>}
  ELSE LET shorter == Responses(n - 1)
       IN shorter \cup
          {Append(s, m) : s \in {t \in shorter : Len(t) = n - 1},
                          m \in Catalog}
NoRepeat(s) == \A i, j \in 1..Len(s) : i # j => s[i].ID # s[j].ID
CatalogResponses == {s \in Responses(MaxResults) : NoRepeat(s)}

\* a response with status 200 and the given results
Found(results) == [status |-> StatusOK, results |-> results]

\* the messages of the chats that only subscribe
SubscribeMessages == {"subscribe to Alita"}

\* the messages of the chats that subscribe and ask for their subscriptions
ListMessages == SubscribeMessages \cup {"List subscriptions"}

\* messages for every branch of main, some of them matching several patterns
BotMessages ==
  { "release Climax year 2018", "release exact Alita year 2019 ",
    "Releases exact julia", "release alita", "Subscribe to release Alita",
    "list subscriptions for releases 2019",
    "Subscribe to Alita", "subscribe to the list subscriptions",
    "list subscriptions", "release", "hello", " " }

\* the messages of the chats where errors are looked at
CrashMessages == ListMessages \cup {"release alita"}

\* responses queryMovies does not accept: another status than 200, a date
\* that is not a date
FailedResponses ==
  { [status |-> 500, results |-> <<>>],
    Found(<<[ID |-> 1, Title |-> "Alita", ReleaseDate |-> "soon"]>>) }

\* release messages, most of them with "exact": the titles asked for are in
\* one, in all and in none of the titles of the catalog
QueryMessages ==
  { "release ali", "Release Exact ALI", "release exact x", "release exact ju",
    "release exact a", "release exact zz" }

\* date strings that are not dates
BadDates == {"soon", "0001-1-9", "0001-02-30", "0001-01-09T00:00:00Z"}

\* the responses where queryMovies is looked at: up to MaxQueryResults
\* results in any order; the same with one date replaced by a string that
\* is not a date; and the same with another status than 200
QueryResults == {s \in Responses(MaxQueryResults) : NoRepeat(s)}
BadDateResults ==
  UNION {{[s EXCEPT ![i].ReleaseDate = d] : i \in 1..Len(s), d \in BadDates} :
           s \in QueryResults}
QueryResponses ==
  {Found(results) : results \in QueryResults \cup BadDateResults}
    \cup {[status |-> 404, results |-> results] : results \in QueryResults}

\* the first movie as the catalog has it, and as it has it after its title
\* and its date were changed
DriftResponses ==
  { Found(<<[ID |-> 1, Title |-> "Alita", ReleaseDate |-> "0001-01-09"]>>),
    Found(<<[ID |-> 1, Title |-> "Alita: Battle Angel",
             ReleaseDate |-> "0001-01-13"]>>) }

\* updates the loop passes over: one without a message, one with no text
EmptyUpdates ==
  { [Message |-> FALSE, Text |-> ""], [Message |-> TRUE, Text |-> ""] }

\* the updates of the webhook: those, and a message for each of the texts
Updates(messages) ==
  EmptyUpdates \cup {[Message |-> TRUE, Text |-> msg] : msg \in messages}

\* every message and every response of the specifications below
Messages ==
  SubscribeMessages \cup ListMessages \cup BotMessages \cup CrashMessages
    \cup QueryMessages
SearchResponses ==
  {Found(results) : results \in CatalogResponses} \cup FailedResponses
    \cup QueryResponses \cup DriftResponses

\* ------------------------------------------------------------- constructors
\* update is the text of the message being handled, handler the function
\* main called for it, results what handleRelease gives to sendResults, text
\* the reply to send
IdleLoop == [pc |-> "idle", update |-> "", handler |-> "", chat |-> 0,
             results |-> <<>>, release |-> NoRecord, read |-> NoRecord,
             attempts |-> 0, text |-> "", wrote |-> 0]
\* records holds the records of the snapshot not yet dealt with, the first one
\* being the loop variable "record"; due and skipped remember what the pass did:
\* the (id, chat) pairs it found unnotified in a record in the window, and the
\* ids of the records it found outside the window
IdleTask == [pc |-> "idle", records |-> <<>>, idxSub |-> 0, now |-> 0,
             due |-> {}, skipped |-> {}]
NoIO == [op |-> "none"]
FatalIO(who, what) == [op |-> "fatal", who |-> who, what |-> what]
SearchFailIO(who, resp) ==
  [op |-> "fatal", who |-> who, what |-> "search", resp |-> resp]
SearchIO(who, title, year, exact, resp) ==
  [op |-> "search", who |-> who, title |-> title, year |-> year,
   exact |-> exact, resp |-> resp]
SkipIO(who, update) == [op |-> "skip", who |-> who, update |-> update]
GetAllIO(who) == [op |-> "getall", who |-> who]
QueryIO(who, resp, now) == [op |-> "query", who |-> who, resp |-> resp, now |-> now]
SendIO(chat, text) == [op |-> "send", chat |-> chat, text |-> text]
PutIO(key, who) == [op |-> "put", key |-> key, who |-> who]
NotifyIO(chat, id, days) == [op |-> "notify", chat |-> chat, id |-> id, days |-> days]

Init ==
  /\ store = [k \in IDs |-> NoRecord]
  /\ clock = StartNow
  /\ alive = [p \in Procs |-> TRUE]
  /\ restarts = 0
  /\ loop = [p \in Procs |-> IdleLoop]
  /\ task = [w \in Workers |-> IdleTask]
  /\ sent = [k \in IDs |-> [c \in Chats |-> 0]]
  /\ acked = {}
  /\ io = NoIO

\* the wall clock advances
Tick ==
  /\ clock + TickHours <= MaxNow
  /\ clock' = clock + TickHours
  /\ io' = NoIO
  /\ UNCHANGED <<store, alive, restarts, loop, task, sent, acked>>

\* the wall clock advances by a few hours
TickFine ==
  /\ clock + FineHours <= MaxNow
  /\ clock' = clock + FineHours
  /\ io' = NoIO
  /\ UNCHANGED <<store, alive, restarts, loop, task, sent, acked>>

\* faulty variant: only the request that met the error is given up
Fatal_ThisRequest(p) ==
  /\ alive' = alive
  /\ loop' = [loop EXCEPT ![p] = IdleLoop]
  /\ task' = task

\* log.Fatalf: the instance exits, its goroutines and their locals are gone
Fatal(p) ==
  /\ alive' = [alive EXCEPT ![p] = FALSE]
  /\ loop' = [loop EXCEPT ![p] = IdleLoop]
  /\ task' = IF p = 1 THEN [w \in Workers |-> IdleTask] ELSE task

\* the instance is started again (main); the datastore keeps its records
Restart(p) ==
  /\ ~alive[p]
  /\ restarts < MaxRestarts
  /\ restarts' = restarts + 1
  /\ alive' = [alive EXCEPT ![p] = TRUE]
  /\ io' = NoIO
  /\ UNCHANGED <<store, clock, loop, task, sent, acked>>

\* queryMovies depends on the response only: what it gives for the responses
\* of the specifications is computed once
Searches == [resp \in SearchResponses |-> queryMovies(resp)]

\* ------------------------------------------------------- handleSubscribe
\* the text chosen by "switch len(upcoming)"
SubscribeText(n) ==
  IF n = 0 THEN "No movie releases found :("
  ELSE IF n = 1 THEN "Done!"
  ELSE "Found multiple movies, be more specific please."

\* faulty variant: the first upcoming candidate is taken when there are several
Unambiguous_First(upcoming) == Len(upcoming) >= 1

\* "case 1" of the switch on len(upcoming)
Unambiguous(upcoming) == Len(upcoming) = 1

\* handleSubscribe up to the transaction: the message msg of chat c matched
\* subscribeCommand; the search endpoint answers resp
HandleSubscribe(p, c, msg, resp) ==
  LET q == Searches[resp]
      upcoming == Upcoming(q.results, clock)
      started == [IdleLoop EXCEPT !.update = msg, !.handler = "subscribe",
                                  !.chat = c]
  IN IF q.err
     THEN /\ Fatal(p)
          /\ io' = SearchFailIO(p, resp)
          /\ UNCHANGED <<store, clock, restarts, sent, acked>>
     ELSE /\ loop' = [loop EXCEPT ![p] =
               IF Unambiguous(upcoming)
               THEN [started EXCEPT !.pc = "txget", !.release = upcoming[1],
                                    !.text = SubscribeText(1)]
               ELSE [started EXCEPT !.pc = "reply",
                                    !.text = SubscribeText(Len(upcoming))]]
          /\ io' = QueryIO(p, resp, clock)
          /\ UNCHANGED <<store, clock, alive, restarts, task, sent, acked>>

\* faulty variant: the title and the date are always those just fetched
TxRelease_Fetched(read, release) ==
  IF read = NoRecord THEN release
  ELSE [release EXCEPT !.Subscribers = read.Subscribers]

\* "Handle case where record doesn't exist yet"
TxRelease(read, release) == IF read = NoRecord THEN release ELSE read

\* tx.Get inside the transaction function
TxGet(p) ==
  /\ alive[p]
  /\ loop[p].pc = "txget"
  /\ loop' = [loop EXCEPT ![p] = [loop[p] EXCEPT !.pc = "commit",
                            !.read = store[loop[p].release.ID]]]
  /\ io' = NoIO
  /\ UNCHANGED <<store, clock, alive, restarts, task, sent, acked>>

\* faulty variant: the write is not conditional on the read
CommitOk_Blind(read, current) == TRUE

\* the commit succeeds unless the entity read was written in between
CommitOk(read, current) == read = current

\* the rest of the transaction function (the subscriber check, the append and
\* tx.Put, which only buffers the mutation), the commit of RunInTransaction,
\* its retry, and the log.Fatalf on its error
TxCommit(p) ==
  /\ alive[p]
  /\ loop[p].pc = "commit"
  /\ LET l == loop[p]
         key == l.release.ID
         txRelease == TxRelease(l.read, l.release)
     IN IF HasSubscriber(txRelease, l.chat)
        THEN /\ loop' = [loop EXCEPT ![p] = [l EXCEPT !.pc = "reply"]]
             /\ io' = NoIO
             /\ UNCHANGED <<store, alive, task>>
        ELSE IF CommitOk(l.read, store[key])
        THEN /\ store' = [store EXCEPT ![key] = AppendSubscriber(txRelease, l.chat)]
             /\ loop' = [loop EXCEPT ![p] =
                           [l EXCEPT !.pc = "reply", !.wrote = @ + 1]]
             /\ io' = PutIO(key, "subscribe")
             /\ UNCHANGED <<alive, task>>
        ELSE IF l.attempts + 1 < MaxAttempts
        THEN /\ loop' = [loop EXCEPT ![p] =
                           [l EXCEPT !.pc = "txget", !.attempts = @ + 1]]
             /\ io' = NoIO
             /\ UNCHANGED <<store, alive, task>>
        ELSE /\ Fatal(p)
             /\ io' = FatalIO(p, "transaction")
             /\ UNCHANGED store
  /\ UNCHANGED <<clock, restarts, sent, acked>>

\* sendMsg of the reply; the handler returns to the loop
Reply(p) ==
  /\ alive[p]
  /\ loop[p].pc = "reply"
  /\ io' = SendIO(loop[p].chat, loop[p].text)
  /\ acked' = IF loop[p].handler = "subscribe" /\ loop[p].release # NoRecord
              THEN acked \cup {<<loop[p].release.ID, loop[p].chat>>}
              ELSE acked
  /\ loop' = [loop EXCEPT ![p] = IdleLoop]
  /\ UNCHANGED <<store, clock, alive, restarts, task, sent>>

\* sendMsg of the reply fails: log.Fatalf
ReplyFail(p) ==
  /\ alive[p]
  /\ loop[p].pc = "reply"
  /\ Fatal(p)
  /\ io' = FatalIO(p, "send")
  /\ UNCHANGED <<store, clock, restarts, sent, acked>>

\* --------------------------------------------------------- handleRelease
\* results = append(results[:i], results[i+1:]...), i counted from 0
RemoveAt(results, i) == SubSeq(results, 1, i) \o SubSeq(results, i + 2, Len(results))

\* faulty variant: the index is not stepped back after a removal
RECURSIVE ExactLoop_NoStepBack(_, _, _)
ExactLoop_NoStepBack(results, title, i) ==
  IF i >= Len(results) THEN results
  ELSE IF ~Contains(ToLower(results[i + 1].Title), title)
  THEN ExactLoop_NoStepBack(RemoveAt(results, i), title, i + 1)
  ELSE ExactLoop_NoStepBack(results, title, i + 1)

\* the loop "for i := 0; i < len(results); i++" of the exact filter, from
\* index i on: a removal is followed by i-- and then by the loop's i++
RECURSIVE ExactLoop(_, _, _)
ExactLoop(results, title, i) ==
  IF i >= Len(results) THEN results
  ELSE IF ~Contains(ToLower(results[i + 1].Title), title)
  THEN ExactLoop(RemoveAt(results, i), title, (i - 1) + 1)
  ELSE ExactLoop(results, title, i + 1)

\* the line of sendResults for one result
ResultLine(m) ==
  "- " \o m.Title \o " ("
       \o (IF m.ReleaseTime = ZeroTime THEN "unknown release date"
           ELSE ToString(Year(m.ReleaseTime)))
       \o ")\n"

RECURSIVE ResultLines(_)
ResultLines(results) ==
  IF results = <<>> THEN ""
  ELSE ResultLine(Head(results)) \o ResultLines(Tail(results))

\* the text of sendResults (its emoji left out)
ResultsText(results) ==
  IF Len(results) = 0 THEN "No entry found"
  ELSE "I found these entries:\n" \o ResultLines(results)

\* handleRelease up to its sendMsg: the message matched releaseYearCommand or
\* releaseCommand with the groups in matches
HandleRelease(p, c, msg, matches, resp) ==
  LET exact == matches[2] # ""
      title == matches[3]
      year == IF Len(matches) = 4 THEN matches[4] ELSE ""
      q == Searches[resp]
      results == IF exact THEN ExactLoop(q.results, title, 0) ELSE q.results
  IN IF q.err
     THEN /\ Fatal(p)
          /\ io' = SearchFailIO(p, resp)
          /\ UNCHANGED <<store, clock, restarts, sent, acked>>
     ELSE /\ loop' = [loop EXCEPT ![p] =
               [IdleLoop EXCEPT !.pc = "reply", !.update = msg,
                                !.handler = "release", !.chat = c,
                                !.results = results,
                                !.text = ResultsText(results)]]
          /\ io' = SearchIO(p, title, year, exact, resp)
          /\ UNCHANGED <<store, clock, alive, restarts, task, sent, acked>>

\* an error of tx.Get, of tx.Put or of the commit that is not a conflict:
\* RunInTransaction returns it, log.Fatalf
TxFail(p) ==
  /\ alive[p]
  /\ loop[p].pc \in {"txget", "commit"}
  /\ Fatal(p)
  /\ io' = FatalIO(p, "transaction")
  /\ UNCHANGED <<store, clock, restarts, sent, acked>>

\* ------------------------------------------------ handlelistSubscriptions
\* the records of which chat c is a Subscriber, in the order of GetAll
RECURSIVE Subscriptions(_, _)
Subscriptions(records, c) ==
  IF records = <<>> THEN <<>>
  ELSE (IF HasSubscriber(Head(records), c) THEN <<Head(records)>> ELSE <<>>)
         \o Subscriptions(Tail(records), c)

\* fmt.Sprintf("- %s %s\n", sub.MovieTitle, date)
SubscriptionLine(sub) ==
  "- " \o sub.MovieTitle \o " " \o FormatDate(sub.ReleaseDate) \o "\n"

RECURSIVE SubscriptionLines(_)
SubscriptionLines(subscriptions) ==
  IF subscriptions = <<>> THEN ""
  ELSE SubscriptionLine(Head(subscriptions))
         \o SubscriptionLines(Tail(subscriptions))

\* the text chosen by "switch len(subscriptions)"
ListText(subscriptions) ==
  IF Len(subscriptions) = 0 THEN "No subscriptions found"
  ELSE "Your subscriptions are \n" \o SubscriptionLines(subscriptions)

\* handlelistSubscriptions up to its sendMsg
HandleList(p, c, msg) ==
  /\ loop' = [loop EXCEPT ![p] =
       [IdleLoop EXCEPT !.pc = "reply", !.update = msg, !.handler = "list",
                        !.chat = c,
                        !.text = ListText(Subscriptions(GetAll(store), c))]]
  /\ io' = GetAllIO(p)
  /\ UNCHANGED <<store, clock, alive, restarts, task, sent, acked>>

\* ------------------------------------------------------------------- main
\* the text of the last branch of main (its emoji left out, its backquotes
\* written as quotes)
HelpText ==
  "Looking for information about movie releases? I can help with the following questions\n"
  \o "'releases [exact] <movie title>'\n"
  \o "'releases [exact] <movie title> year <year of release>' (the year of release can be region specific)\n"
  \o "'subscribe to <movie title>'\n"
  \o "'list subscriptions' (the year of release can be region specific)\n"
  \o "\n"
  \o "Examples:\n"
  \o "'release climax year 2018'\n"
  \o "'release exact julia'\n"
  \o "'subscribe to Alita'\n"
  \o "\n"
  \o "Current region: DE"

\* the last branch of main up to its sendMsg
Help(p, c, msg) ==
  /\ loop' = [loop EXCEPT ![p] =
       [IdleLoop EXCEPT !.pc = "reply", !.update = msg, !.handler = "help",
                        !.chat = c, !.text = HelpText]]
  /\ io' = NoIO
  /\ UNCHANGED <<store, clock, alive, restarts, task, sent, acked>>

\* faulty variant: subscribeCommand is tried before the release patterns
Dispatch_SubscribeFirst(text) ==
  IF MatchSubscribe(text) # <<>>
  THEN [handler |-> "subscribe", matches |-> MatchSubscribe(text)]
  ELSE IF MatchReleaseYear(text) # <<>>
  THEN [handler |-> "release", matches |-> MatchReleaseYear(text)]
  ELSE IF MatchRelease(text) # <<>>
  THEN [handler |-> "release", matches |-> MatchRelease(text)]
  ELSE IF MatchList(text) # <<>>
  THEN [handler |-> "list", matches |-> MatchList(text)]
  ELSE [handler |-> "help", matches |-> <<>>]

\* the if / else if chain of main: the handler called and the groups given to it
Dispatch(text) ==
  IF MatchReleaseYear(text) # <<>>
  THEN [handler |-> "release", matches |-> MatchReleaseYear(text)]
  ELSE IF MatchRelease(text) # <<>>
  THEN [handler |-> "release", matches |-> MatchRelease(text)]
  ELSE IF MatchSubscribe(text) # <<>>
  THEN [handler |-> "subscribe", matches |-> MatchSubscribe(text)]
  ELSE IF MatchList(text) # <<>>
  THEN [handler |-> "list", matches |-> MatchList(text)]
  ELSE [handler |-> "help", matches |-> <<>>]

\* Dispatch depends on the text only: what it gives for the messages of the
\* specifications is computed once
Routes == [msg \in Messages |-> Dispatch(TrimSpace(ToLower(msg)))]

\* one iteration of "for update := range updates" up to the handler's first
\* effect: chat c sent the text msg; the search endpoint would answer resp
OnUpdate(p, c, msg, resp) ==
  /\ alive[p]
  /\ loop[p].pc = "idle"
  /\ msg # ""
  /\ LET d == Routes[msg]
     IN IF d.handler = "release" THEN HandleRelease(p, c, msg, d.matches, resp)
        ELSE IF d.handler = "subscribe" THEN HandleSubscribe(p, c, msg, resp)
        ELSE IF d.handler = "list" THEN HandleList(p, c, msg)
        ELSE Help(p, c, msg)

\* faulty variant: an update that is passed over gets the help reply
SkipUpdate_Help(p, c, update) == Help(p, c, update.Text)

\* "continue": the loop takes the next update
SkipUpdate(p, c, update) ==
  /\ io' = SkipIO(p, update)
  /\ UNCHANGED <<store, clock, alive, restarts, loop, task, sent, acked>>

\* one iteration of "for update := range updates" for any update of chat c
ForUpdate(p, c, update, resp) ==
  /\ alive[p]
  /\ loop[p].pc = "idle"
  /\ IF ~update.Message THEN SkipUpdate(p, c, update)
     ELSE IF update.Text = "" THEN SkipUpdate(p, c, update)
     ELSE OnUpdate(p, c, update.Text, resp)

\* the message goes to handlelistSubscriptions and its datastoreClient.GetAll
\* fails: log.Fatalf
ListFail(p, msg) ==
  /\ alive[p]
  /\ loop[p].pc = "idle"
  /\ msg # ""
  /\ Routes[msg].handler = "list"
  /\ Fatal(p)
  /\ io' = FatalIO(p, "getall")
  /\ UNCHANGED <<store, clock, restarts, sent, acked>>

\* ------------------------------------------------------ handleTaskNotify
\* datastoreClient.GetAll: the snapshot the pass works on
NotifyStart(w) ==
  /\ alive[1]
  /\ task[w].pc = "idle"
  /\ \A v \in Workers : v < w => task[v].pc # "idle"   \* the first free slot
  /\ task' = [task EXCEPT ![w] = [IdleTask EXCEPT !.pc = "loop",
                                                  !.records = GetAll(store)]]
  /\ io' = NoIO
  /\ UNCHANGED <<store, clock, alive, restarts, loop, sent, acked>>

\* datastoreClient.GetAll of handleTaskNotify fails: log.Fatalf
NotifyStartFail(w) ==
  /\ alive[1]
  /\ task[w].pc = "idle"
  /\ \A v \in Workers : v < w => task[v].pc # "idle"
  /\ Fatal(1)
  /\ io' = FatalIO(1, "getall")
  /\ UNCHANGED <<store, clock, restarts, sent, acked>>

\* top of the record loop: read the clock, test the window
NotifyNext(w) ==
  /\ alive[1]
  /\ task[w].pc = "loop"
  /\ task[w].records # <<>>
  /\ LET t == task[w]
         record == Head(t.records)
     IN task' = [task EXCEPT ![w] =
          IF InWindow(record.ReleaseDate, clock)
          THEN [t EXCEPT !.pc = "subs", !.idxSub = 1, !.now = clock]
          ELSE [t EXCEPT !.records = Tail(@),
                         !.skipped = @ \cup {record.ID}]]
  /\ io' = NoIO
  /\ UNCHANGED <<store, clock, alive, restarts, loop, sent, acked>>

\* the record loop is over: the handler returns
NotifyDone(w) ==
  /\ alive[1]
  /\ task[w].pc = "loop"
  /\ task[w].records = <<>>
  /\ task' = [task EXCEPT ![w] = IdleTask]
  /\ io' = NoIO
  /\ UNCHANGED <<store, clock, alive, restarts, loop, sent, acked>>

\* faulty variant: the flag is set on the loop's copy "sub", not in the record
MarkNotified_Copy(record, i) == record

\* record.Subscribers[idxSub].Notified = true
MarkNotified(record, i) == [record EXCEPT !.Subscribers[i].Notified = TRUE]

\* one iteration of the subscriber loop
NotifySub(w) ==
  /\ alive[1]
  /\ task[w].pc = "subs"
  /\ LET t == task[w]
         record == Head(t.records)
         i == t.idxSub
     IN /\ i <= Len(record.Subscribers)
        /\ IF record.Subscribers[i].Notified
           THEN /\ task' = [task EXCEPT ![w] = [t EXCEPT !.idxSub = i + 1]]
                /\ io' = NoIO
                /\ UNCHANGED sent
           ELSE LET chat == record.Subscribers[i].ChatID
                    days == DaysCeil(record.ReleaseDate - t.now)
                IN /\ io' = NotifyIO(chat, record.ID, days)
                   /\ sent' = [sent EXCEPT ![record.ID][chat] =
                                 Min(@ + 1, SentCap)]
                   /\ task' = [task EXCEPT ![w] =
                        [t EXCEPT !.idxSub = i + 1,
                                  !.records[1] = MarkNotified(record, i),
                                  !.due = @ \cup {<<record.ID, chat>>}]]
  /\ UNCHANGED <<store, clock, alive, restarts, loop, acked>>

\* sendMsg of a notification fails: log.Fatalf
NotifySendFail(w) ==
  /\ alive[1]
  /\ task[w].pc = "subs"
  /\ LET record == Head(task[w].records)
         i == task[w].idxSub
     IN /\ i <= Len(record.Subscribers)
        /\ ~record.Subscribers[i].Notified
  /\ Fatal(1)
  /\ io' = FatalIO(1, "send")
  /\ UNCHANGED <<store, clock, restarts, sent, acked>>

\* faulty variant: the record is not written back
WriteBack_None(st, record) == st

\* what the write-back stores under the record's key
WriteBack(st, record) == [st EXCEPT ![record.ID] = record]

\* datastoreClient.Put of the whole record after its subscriber loop
NotifyPut(w) ==
  /\ alive[1]
  /\ task[w].pc = "subs"
  /\ LET t == task[w]
         record == Head(t.records)
     IN /\ t.idxSub > Len(record.Subscribers)
        /\ store' = WriteBack(store, record)
        /\ io' = PutIO(record.ID, "notify")
        /\ task' = [task EXCEPT ![w] =
                      [t EXCEPT !.pc = "loop", !.records = Tail(@),
                                !.idxSub = 0, !.now = 0]]
  /\ UNCHANGED <<clock, alive, restarts, loop, sent, acked>>

\* datastoreClient.Put of handleTaskNotify fails: log.Fatalf
NotifyPutFail(w) ==
  /\ alive[1]
  /\ task[w].pc = "subs"
  /\ task[w].idxSub > Len(Head(task[w].records).Subscribers)
  /\ Fatal(1)
  /\ io' = FatalIO(1, "put")
  /\ UNCHANGED <<store, clock, restarts, sent, acked>>

\* ---------------------------------------------------------- specifications
\* catalog responses that hold the first dated movie and undated ones only
OneMovieResponses ==
  {s \in CatalogResponses :
     \A i \in 1..Len(s) : s[i].ID = 1 \/ s[i].ReleaseDate = ""}

\* the message loop of instance p with the given inputs
BotStep(p, messages, responses) ==
  \/ \E c \in Chats, msg \in messages, resp \in responses : OnUpdate(p, c, msg, resp)
  \/ TxGet(p)
  \/ TxCommit(p)
  \/ Reply(p)

LoopStep(p, responses) ==
  BotStep(p, SubscribeMessages, {Found(results) : results \in responses})

TaskStep(w) ==
  \/ NotifyStart(w)
  \/ NotifyNext(w)
  \/ NotifySub(w)
  \/ NotifyPut(w)
  \/ NotifyDone(w)

\* one instance: its message loop and overlapping notify requests
Next ==
  \/ Tick
  \/ LoopStep(1, OneMovieResponses)
  \/ \E w \in Workers : TaskStep(w)

Spec == Init /\ [][Next]_vars

\* one instance, one notify request at a time
NextSeq ==
  \/ Tick
  \/ LoopStep(1, CatalogResponses)
  \/ TaskStep(1)

SpecSeq == Init /\ [][NextSeq]_vars

\* two instances of the program subscribing against the same datastore
NextSubs ==
  \/ Tick
  \/ \E p \in Procs : LoopStep(p, CatalogResponses)

SpecSubs == Init /\ [][NextSubs]_vars

\* one instance whose chats subscribe and list, one notify request at a time
NextList ==
  \/ Tick
  \/ BotStep(1, ListMessages, {Found(results) : results \in OneMovieResponses})
  \/ TaskStep(1)

SpecList == Init /\ [][NextList]_vars

\* one instance whose chats send messages of every kind
NextBot ==
  \/ Tick
  \/ BotStep(1, BotMessages, {Found(results) : results \in OneMovieResponses})

SpecBot == Init /\ [][NextBot]_vars

\* one instance that is sent updates of every kind, with the errors of the
\* search endpoint, of the datastore and of the sends, and with restarts
NextReply ==
  \/ Tick
  \/ \E c \in Chats, update \in Updates(BotMessages),
        resp \in {Found(results) : results \in OneMovieResponses} \cup FailedResponses :
       ForUpdate(1, c, update, resp)
  \/ TxGet(1)
  \/ TxCommit(1)
  \/ Reply(1)
  \/ \E msg \in BotMessages : ListFail(1, msg)
  \/ TxFail(1)
  \/ ReplyFail(1)
  \/ Restart(1)

SpecReply == Init /\ [][NextReply]_vars

\* one instance subscribing while the catalog changes a movie, one notify
\* request at a time
NextDrift ==
  \/ Tick
  \/ BotStep(1, SubscribeMessages, DriftResponses)
  \/ TaskStep(1)

SpecDrift == Init /\ [][NextDrift]_vars

\* one instance and one notify request at a time, at any hour of the day
NextFine ==
  \/ TickFine
  \/ BotStep(1, SubscribeMessages, {Found(results) : results \in OneMovieResponses})
  \/ TaskStep(1)

SpecFine == Init /\ [][NextFine]_vars

\* one instance answering release messages, with responses of every kind
NextQuery ==
  \/ \E c \in Chats, msg \in QueryMessages, resp \in QueryResponses :
       OnUpdate(1, c, msg, resp)
  \/ Reply(1)

SpecQuery == Init /\ [][NextQuery]_vars

\* one instance, one notify request at a time, with the errors of the search
\* endpoint, of the datastore and of the sends, and with restarts
NextCrash ==
  \/ Tick
  \/ BotStep(1, CrashMessages,
              {Found(results) : results \in OneMovieResponses} \cup FailedResponses)
  \/ TaskStep(1)
  \/ \E msg \in CrashMessages : ListFail(1, msg)
  \/ TxFail(1)
  \/ ReplyFail(1)
  \/ NotifyStartFail(1)
  \/ NotifySendFail(1)
  \/ NotifyPutFail(1)
  \/ Restart(1)

SpecCrash == Init /\ [][NextCrash]_vars

\* ------------------------------------------------------------------ claims
\* the chats subscribed in a stored value, and those with the notified flag set
ChatsOf(rec) ==
  IF rec = NoRecord THEN {}
  ELSE {rec.Subscribers[i].ChatID : i \in 1..Len(rec.Subscribers)}
NotifiedOf(rec) ==
  IF rec = NoRecord THEN {}
  ELSE {rec.Subscribers[i].ChatID :
          i \in {j \in 1..Len(rec.Subscribers) : rec.Subscribers[j].Notified}}

\* C1: no lost update when a subscribe races the notifier: a Subscriber that
\* handleSubscribe committed to a record after the notifier scanned it is
\* still in the stored record after the notifier's write-back, that is, no
\* step of the program removes a Subscriber from a stored record.
C1_NoLostUpdate ==
  [][\A k \in IDs : ChatsOf(store[k]) \subseteq ChatsOf(store'[k])]_vars

\* C2: the notifier messages each subscriber exactly once in every execution:
\* no Subscriber of a MovieRelease receives more than one notification for
\* that release, also when notify requests overlap.
C2_AtMostOnce == \A k \in IDs, c \in Chats : sent[k][c] <= 1

\* a pass has dealt with every record of its snapshot
PassComplete(w) == task[w].pc = "loop" /\ task[w].records = <<>>

C4_OneWay ==
  [][\A k \in IDs : NotifiedOf(store[k]) \subseteq NotifiedOf(store'[k])]_vars

\* the handler of instance p has committed its transaction for a release
Committed(p) == loop[p].pc = "reply" /\ loop[p].release # NoRecord

\* C5: concurrent subscribes to the same release lose no entry: a chat whose
\* subscribe transaction committed is in the stored record, and no later
\* commit of another subscribe removes a chat from a stored record.
C5_NoLostSubscribe ==
  /\ [](\A p \in Procs :
          Committed(p) => loop[p].chat \in ChatsOf(store[loop[p].release.ID]))
  /\ [][\A k \in IDs : ChatsOf(store[k]) \subseteq ChatsOf(store'[k])]_vars

\* two instances have both committed different chats to the same release,
\* one of them after its first attempt met a conflict
C5_Witness ==
  /\ Committed(1) /\ Committed(2)
  /\ loop[1].release.ID = loop[2].release.ID
  /\ loop[1].chat # loop[2].chat
  /\ loop[1].wrote = 1 /\ loop[2].wrote = 1
  /\ loop[1].attempts + loop[2].attempts > 0

\* C6: in every reachable state each MovieRelease record holds at most one
\* Subscriber per chat identifier.
C6_UniqueSubscriber ==
  \A k \in IDs :
    store[k] # NoRecord =>
      \A i, j \in 1..Len(store[k].Subscribers) :
        store[k].Subscribers[i].ChatID = store[k].Subscribers[j].ChatID => i = j

\* a notifier write-back stored a record with two Subscribers while a further
\* subscribe of one of them is under way
C6_Witness ==
  /\ io.op = "put" /\ io.who = "notify"
  /\ Len(store[io.key].Subscribers) = 2
  /\ loop[1].pc = "commit"
  /\ loop[1].release.ID = io.key
  /\ loop[1].chat \in ChatsOf(store[io.key])

\* C7: subscribe is idempotent: when the record read by the transaction
\* already holds the chat, the handler writes nothing to the store, leaves
\* every record as it was, meets no error and goes on to reply "Done!".
C7_Idempotent ==
  [][\A p \in Procs :
       (/\ loop[p].pc = "commit"
        /\ loop[p].chat \in ChatsOf(loop[p].read)
        /\ loop'[p] # loop[p])
       => /\ store' = store
          /\ io'.op = "none"
          /\ alive'[p]
          /\ loop'[p].pc = "reply"
          /\ loop'[p].text = "Done!"
          /\ loop'[p].wrote = 0]_vars

\* the second subscribe of a chat, already notified, has gone the no-op way
C7_Witness ==
  /\ loop[1].pc = "reply"
  /\ loop[1].text = "Done!"
  /\ loop[1].wrote = 0
  /\ loop[1].chat \in NotifiedOf(loop[1].read)
  /\ loop[1].read = store[loop[1].release.ID]

\* the time of every release date the catalog answers with
TimeOf ==
  [date \in UNION {{resp.results[i].ReleaseDate : i \in 1..Len(resp.results)} :
                     resp \in SearchResponses} |-> ParseDate(date).t]

\* the candidates of a response with a release date strictly after now
FutureIn(resp, now) ==
  {i \in 1..Len(resp.results) :
     /\ resp.results[i].ReleaseDate # ""
     /\ TimeOf[resp.results[i].ReleaseDate] > now}

\* C8: a subscribe writes to the store only in the unambiguous case: with 0
\* or with 2 or more candidates dated strictly after now the handler goes
\* straight to its reply and writes nothing; with exactly 1 it runs the
\* upsert for that candidate's id, which writes at most once, exactly once
\* unless the chat is already subscribed, and the reply is "Done!".
C8_WriteOnlyUnambiguous ==
  \A p \in Procs :
    /\ (io.op = "query" /\ io.who = p) =>
         LET future == FutureIn(io.resp, io.now)
         IN IF Cardinality(future) = 1
            THEN /\ loop[p].pc = "txget"
                 /\ \A i \in future : loop[p].release.ID = io.resp.results[i].ID
                 /\ loop[p].text = "Done!"
            ELSE /\ loop[p].pc = "reply"
                 /\ loop[p].release = NoRecord
                 /\ loop[p].text # "Done!"
    /\ loop[p].pc \in {"txget", "commit"} =>
         loop[p].wrote = 0 /\ loop[p].text = "Done!"
    /\ loop[p].pc = "reply" =>
         IF loop[p].release = NoRecord
         THEN loop[p].wrote = 0 /\ loop[p].text # "Done!"
         ELSE /\ loop[p].text = "Done!"
              /\ loop[p].wrote = (IF loop[p].chat \in ChatsOf(loop[p].read)
                                  THEN 0 ELSE 1)

\* the upsert was done once, for the second movie after the first one's
\* release date had passed
C8_Witness ==
  /\ loop[1].pc = "reply"
  /\ loop[1].text = "Done!"
  /\ loop[1].wrote = 1
  /\ loop[1].release.ID = 2
  /\ clock > 8 * HoursPerDay

\* C9: after a notifier pass completes without error, every Subscriber it
\* found unnotified in a record in the window has been sent a message and
\* has notified=true in the stored record.
C9_Complete ==
  \A w \in Workers :
    PassComplete(w) =>
      \A d \in task[w].due :
        sent[d[1]][d[2]] >= 1 /\ d[2] \in NotifiedOf(store[d[1]])

\* C10: a record outside the window (date at or before now, or at or after
\* now + 7 days) is skipped entirely: the pass sends nothing, changes no
\* flag, writes nothing and goes on to the next record of its snapshot.
C10_OutsideUntouched ==
  [][\A w \in Workers :
       (/\ task[w].pc = "loop"
        /\ task[w].records # <<>>
        /\ task'[w] # task[w]
        /\ alive'[1]
        /\ LET date == Head(task[w].records).ReleaseDate
           IN date <= clock \/ date >= clock + 7 * 24)
       => /\ store' = store
          /\ sent' = sent
          /\ io'.op = "none"
          /\ task'[w].pc = "loop"
          /\ task'[w].records = Tail(task[w].records)
          /\ task'[w].due = task[w].due]_vars

\* a completed pass skipped a record whose release date had passed, and its
\* Subscribers are still unnotified
C10_Witness ==
  /\ PassComplete(1)
  /\ task[1].due = {}
  /\ \E k \in task[1].skipped :
       /\ store[k] # NoRecord
       /\ ChatsOf(store[k]) # {}
       /\ NotifiedOf(store[k]) = {}
       /\ store[k].ReleaseDate <= clock

\* what a list reply shows for a date of the catalog: day, month, year
DayMonthYear(t) ==
  CASE t = 8 * HoursPerDay -> "9 Jan 0001"
    [] t = 12 * HoursPerDay -> "13 Jan 0001"
    [] OTHER -> "?"

\* how often the string part occurs in the string text
RECURSIVE Occurrences(_, _, _)
Occurrences(text, part, from) ==
  IF from + Len(part) - 1 > Len(text) THEN 0
  ELSE (IF SubSeq(text, from, from + Len(part) - 1) = part THEN 1 ELSE 0)
         + Occurrences(text, part, from + 1)

\* C11: subscribe/list round trip: once a chat's subscribe for a release was
\* answered "Done!", the text of every later list-subscriptions reply to that
\* chat holds the line of that release exactly once, with the title and the
\* release date of the stored record, whatever subscribes and notifier passes
\* ran in between.
C11_RoundTrip ==
  [][\A p \in Procs :
       (loop[p].pc = "idle" /\ loop'[p].handler = "list") =>
         \A k \in IDs :
           <<k, loop'[p].chat>> \in acked =>
             /\ store[k] # NoRecord
             /\ Occurrences(loop'[p].text,
                            "- " \o store[k].MovieTitle \o " "
                                 \o DayMonthYear(store[k].ReleaseDate) \o "\n",
                            1) = 1]_vars

\* the branch of main each message of BotMessages is expected to take, with
\* the exact flag, the title and the year a release branch is expected to use
Branch(handler, exact, title, year) ==
  [handler |-> handler, exact |-> exact, title |-> title, year |-> year]
Expected(msg) ==
  CASE msg = "release Climax year 2018" -> Branch("release", FALSE, "climax", "2018")
    [] msg = "release exact Alita year 2019 " -> Branch("release", TRUE, "alita", "2019")
    [] msg = "Releases exact julia" -> Branch("release", TRUE, "julia", "")
    [] msg = "release alita" -> Branch("release", FALSE, "alita", "")
    [] msg = "Subscribe to release Alita" -> Branch("release", FALSE, "alita", "")
    [] msg = "list subscriptions for releases 2019" -> Branch("release", FALSE, "2019", "")
    [] msg = "Subscribe to Alita" -> Branch("subscribe", FALSE, "", "")
    [] msg = "subscribe to the list subscriptions" -> Branch("subscribe", FALSE, "", "")
    [] msg = "list subscriptions" -> Branch("list", FALSE, "", "")
    [] OTHER -> Branch("help", FALSE, "", "")

\* C12: dispatch is a total, priority-ordered choice: every non-empty message
\* goes to exactly one branch, the first of release-with-year, release,
\* subscribe and list-subscriptions whose pattern matches the lower-cased,
\* trimmed text, and to the help reply when none matches; a message matching
\* a release pattern is not handled as a subscribe and writes nothing to the
\* store; an unmatched message performs no search and no store access.
C12_Dispatch ==
  [][/\ \A p \in Procs :
          (loop[p].pc = "idle" /\ loop'[p] # loop[p]) =>
            LET e == Expected(loop'[p].update)
            IN /\ loop'[p].handler = e.handler
               /\ e.handler = "release" =>
                    /\ io' = SearchIO(p, e.title, e.year, e.exact, io'.resp)
                    /\ loop'[p].pc = "reply"
                    /\ store' = store
               /\ e.handler = "subscribe" => io'.op = "query"
               /\ e.handler = "list" => io'.op = "getall" /\ store' = store
               /\ e.handler = "help" =>
                    /\ io'.op = "none"
                    /\ loop'[p].pc = "reply"
                    /\ loop'[p].text = HelpText
                    /\ store' = store
     /\ \A p \in Procs :
          (loop[p].pc # "idle" /\ loop'[p] # loop[p]) =>
            /\ loop[p].handler # "subscribe" =>
                 /\ store' = store
                 /\ io' = SendIO(loop[p].chat, loop[p].text)
                 /\ loop'[p].pc = "idle"
            /\ loop'[p].pc # "idle" =>
                 loop'[p].handler = loop[p].handler /\ loop'[p].update = loop[p].update
    ]_vars

\* a message that matches a release pattern and the subscribe pattern is being
\* answered by handleRelease, after an earlier subscribe has written a record
C12_Witness ==
  /\ loop[1].pc = "reply"
  /\ loop[1].update = "Subscribe to release Alita"
  /\ loop[1].handler = "release"
  /\ io.op = "search" /\ io.title = "alita"
  /\ \E k \in IDs : store[k] # NoRecord

\* the date strings of the catalog that are dates, and the empty one
GoodDates == {"", "0001-01-09", "0001-01-13"}

\* the steps that are effects of a running instance
Effects == {"query", "search", "getall", "put", "send", "notify"}

\* C13: every error is fatal to the whole process: after a search error, a
\* store read, transaction or write error, or a send error, in a handler or
\* in the notifier, the instance is dead, with its message loop and its
\* notifier gone; no handler goes on with a failed search; and a dead
\* instance processes no message, sends nothing and writes nothing: the next
\* thing that happens is a new start of the program.
C13_FatalErrors ==
  /\ [](io.op = "fatal" =>
          /\ ~alive[io.who]
          /\ loop[io.who] = IdleLoop
          /\ io.who = 1 => \A w \in Workers : task[w] = IdleTask)
  /\ [](io.op \in {"query", "search"} =>
          /\ io.resp.status = 200
          /\ \A i \in 1..Len(io.resp.results) :
               io.resp.results[i].ReleaseDate \in GoodDates)
  /\ [][~alive[1] =>
          /\ store' = store /\ sent' = sent /\ acked' = acked
          /\ loop'[1] = IdleLoop
          /\ \A w \in Workers : task'[w] = IdleTask
          /\ io'.op \notin Effects
          /\ alive'[1] => restarts' = restarts + 1]_vars

\* the instance, started again after a first fatal error, has died of a
\* failed write-back of the notifier, with a notification already sent
C13_Witness ==
  /\ ~alive[1]
  /\ restarts = 1
  /\ io = FatalIO(1, "put")
  /\ \E k \in IDs, c \in Chats : sent[k][c] >= 1

\* a response queryMovies has to refuse: another status than 200, or a date
\* string that is neither empty nor a date
Refused(resp) ==
  \/ resp.status # 200
  \/ \E i \in 1..Len(resp.results) : resp.results[i].ReleaseDate \notin GoodDates

\* C14: queryMovies is strict per batch: when a result of the response has a
\* non-empty date string that is not a date, or the status is not 200, the
\* search is an error and no candidate at all is returned; a result with an
\* empty date string is never an error and is kept in the returned list,
\* with the zero date.
C14_StrictBatch ==
  /\ (io.op = "fatal" /\ io.what = "search") =>
       /\ Refused(io.resp)
       /\ loop[io.who].results = <<>>
       /\ loop[io.who].pc = "idle"
  /\ (io.op = "search" /\ ~io.exact) =>
       /\ ~Refused(io.resp)
       /\ Len(loop[io.who].results) = Len(io.resp.results)
       /\ \A i \in 1..Len(io.resp.results) :
            io.resp.results[i].ReleaseDate = "" =>
              \E j \in 1..Len(loop[io.who].results) :
                /\ loop[io.who].results[j].ID = io.resp.results[i].ID
                /\ loop[io.who].results[j].ReleaseTime = ZeroTime

\* a response with status 200 was refused for the date of its last result,
\* after a result with an empty date and one with a good date
C14_Witness ==
  /\ io.op = "fatal" /\ io.what = "search"
  /\ io.resp.status = 200
  /\ Len(io.resp.results) = 3
  /\ io.resp.results[1].ReleaseDate = ""
  /\ io.resp.results[2].ReleaseDate = "0001-01-09"
  /\ io.resp.results[3].ReleaseDate = "0001-02-30"

\* the day of January a date string of the catalog stands for, 0 for the
\* empty string: the order of the release dates, unknown dates first
DayOf(date) ==
  CASE date = "0001-01-09" -> 9
    [] date = "0001-01-13" -> 13
    [] OTHER -> 0

\* C15: queryMovies returns a permutation of the candidates of the response,
\* ordered by release date descending, a candidate with an empty date
\* counting as the earliest date and so coming after every dated candidate.
C15_SortedPermutation ==
  (io.op = "search" /\ ~io.exact) =>
    LET given == io.resp.results
        results == loop[io.who].results
    IN /\ Len(results) = Len(given)
       /\ \A i \in 1..Len(given) :
            Cardinality({j \in 1..Len(results) :
                           /\ results[j].ID = given[i].ID
                           /\ results[j].Title = given[i].Title
                           /\ results[j].ReleaseDate = given[i].ReleaseDate}) = 1
       /\ \A i, j \in 1..Len(results) :
            i < j => DayOf(results[i].ReleaseDate) >= DayOf(results[j].ReleaseDate)

\* three candidates given with the undated one first and the latest one last
\* came back in the opposite order
C15_Witness ==
  /\ io.op = "search" /\ ~io.exact
  /\ Len(io.resp.results) = 3
  /\ io.resp.results[1].ReleaseDate = ""
  /\ io.resp.results[3].ReleaseDate = "0001-01-13"
  /\ loop[io.who].results[1].ID = io.resp.results[3].ID
  /\ loop[io.who].results[3].ID = io.resp.results[1].ID

\* the catalog ids whose lower-cased title contains the title asked for
TitlesWith(title) ==
  CASE title = "ali" -> {1}
    [] title = "x" -> {2}
    [] title = "ju" -> {3}
    [] title = "a" -> {1, 2, 3}
    [] OTHER -> {}

\* C16: the exact filter of handleRelease keeps a candidate if and only if
\* its lower-cased title contains the title asked for, also in lists with
\* consecutive non-matching entries and with a non-matching last entry, and
\* the candidates kept stay in the order they were in.
C16_ExactFilter ==
  (io.op = "search" /\ io.exact) =>
    LET given == io.resp.results
        results == loop[io.who].results
    IN /\ {results[j].ID : j \in 1..Len(results)}
            = {given[i].ID : i \in 1..Len(given)} \cap TitlesWith(io.title)
       /\ \A i, j \in 1..Len(results) :
            i < j => DayOf(results[i].ReleaseDate) > DayOf(results[j].ReleaseDate)

\* of three candidates only the first in date order has the title asked for:
\* the two after it, the last one among them, were removed
C16_Witness ==
  /\ io.op = "search" /\ io.exact /\ io.title = "x"
  /\ Len(io.resp.results) = 3
  /\ Len(loop[io.who].results) = 1
  /\ loop[io.who].results[1].Title = "Climax"

\* the record a pass is at, and whether a step is a step of that pass
Current(w) == Head(task[w].records)
PassStep(w) == task'[w] # task[w] /\ alive'[1]

\* C17: within one notifier pass each record in the window is written back
\* exactly once, after all the sends for its Subscribers and before any send
\* for the next record, also when no Subscriber of it was newly notified: a
\* record in the window is taken up, taken up once, and left only by the
\* write of the whole record, made when every Subscriber was dealt with; a
\* pass writes and sends for no record but the one it has taken up.
C17_WriteBackOnce ==
  /\ [](\A w \in Workers :
          \A i, j \in 1..Len(task[w].records) :
            task[w].records[i].ID = task[w].records[j].ID => i = j)
  /\ [][\A w \in Workers :
          /\ (task[w].pc = "loop" /\ task[w].records # <<>> /\ PassStep(w)) =>
               /\ io'.op = "none" /\ store' = store
               /\ IF /\ Current(w).ReleaseDate > clock
                     /\ Current(w).ReleaseDate < clock + 7 * 24
                  THEN task'[w].pc = "subs" /\ task'[w].records = task[w].records
                  ELSE task'[w].pc = "loop"
          /\ (task[w].pc = "subs" /\ PassStep(w)) =>
               IF task[w].idxSub <= Len(Current(w).Subscribers)
               THEN /\ task'[w].pc = "subs"
                    /\ task'[w].idxSub = task[w].idxSub + 1
                    /\ Tail(task'[w].records) = Tail(task[w].records)
                    /\ store' = store
                    /\ io'.op \in {"none", "notify"}
                    /\ io'.op = "notify" => io'.id = Current(w).ID
               ELSE /\ task'[w].pc = "loop"
                    /\ task'[w].records = Tail(task[w].records)
                    /\ io' = PutIO(Current(w).ID, "notify")
                    /\ store' = [store EXCEPT ![Current(w).ID] = Current(w)]
          /\ (task[w].pc \notin {"loop", "subs"} /\ PassStep(w)) =>
               io'.op = "none" /\ store' = store
     ]_vars
  /\ [][(io'.op = "notify" \/ (io'.op = "put" /\ io'.who = "notify")) =>
          \E w \in Workers : task[w].pc = "subs" /\ PassStep(w)]_vars

\* a record in the window whose only Subscriber had been notified by an
\* earlier pass has been written back again, nobody being newly notified
C17_Witness ==
  /\ io.op = "put" /\ io.who = "notify"
  /\ task[1].due = {}
  /\ NotifiedOf(store[io.key]) # {}
  /\ NotifiedOf(store[io.key]) = ChatsOf(store[io.key])

\* C18: a subscribe against a stored record changes nothing but appends one
\* Subscriber {chat, notified: false}: the stored title and release date are
\* kept also when the candidate just fetched has others, the Subscribers
\* already there and their flags are as they were; the title and the date
\* of the candidate are used only when there is no record for the id; and
\* no other record is touched.
C18_AppendOnly ==
  [][\A p \in Procs :
       (loop[p].handler = "subscribe" /\ loop'[p] # loop[p] /\ store' # store) =>
         LET key == loop[p].release.ID
             sub == [ChatID |-> loop[p].chat, Notified |-> FALSE]
         IN /\ \A k \in IDs \ {key} : store'[k] = store[k]
            /\ IF store[key] # NoRecord
               THEN /\ store'[key].MovieTitle = store[key].MovieTitle
                    /\ store'[key].ReleaseDate = store[key].ReleaseDate
                    /\ store'[key].ID = store[key].ID
                    /\ store'[key].Subscribers = Append(store[key].Subscribers, sub)
               ELSE store'[key] = [ID |-> key,
                                   MovieTitle |-> loop[p].release.MovieTitle,
                                   ReleaseDate |-> loop[p].release.ReleaseDate,
                                   Subscribers |-> <<sub>>]]_vars

\* a second chat has joined a record whose first Subscriber was notified,
\* with a candidate whose title and date are not those of the record
C18_Witness ==
  /\ loop[1].pc = "reply" /\ loop[1].wrote = 1
  /\ store[1] # NoRecord
  /\ loop[1].release.MovieTitle # store[1].MovieTitle
  /\ loop[1].release.ReleaseDate # store[1].ReleaseDate
  /\ Len(store[1].Subscribers) = 2
  /\ store[1].Subscribers[1].Notified
  /\ store[1].Subscribers[2] = [ChatID |-> loop[1].chat, Notified |-> FALSE]

\* C19: every notification reports a whole number of days from 1 to 7:
\* the record it is about is released strictly between now and now + 7
\* days, and the number is the least number of days that is not less than
\* the time from now to the release, which is never 0, negative or above 7.
C19_DaysInMessage ==
  [][io'.op = "notify" =>
       \E w \in Workers :
         /\ task[w].pc = "subs" /\ task'[w] # task[w]
         /\ LET hours == Current(w).ReleaseDate - task[w].now
            IN /\ hours > 0 /\ hours < 7 * 24
               /\ io'.days \in 1..7
               /\ io'.days * 24 >= hours
               /\ (io'.days - 1) * 24 < hours]_vars

\* a notification sent less than a day before the release
C19_Witness ==
  /\ io.op = "notify" /\ io.days = 1
  /\ task[1].pc = "subs"
  /\ Current(1).ReleaseDate - task[1].now < 24

\* C20: every record in the store has a known release date that was
\* strictly after the now of the subscribe that created it. The handler
\* reads now once; the candidates it counts are those with a date that is
\* not empty and is strictly after that now; the release it carries into
\* the upsert is one of them and stays the same up to the write; a record
\* is created only by that write, with the date of that release, and a
\* subscribe changes no record but the one of that release.
C20_KnownFutureDate ==
  /\ [](\A k \in IDs : store[k] # NoRecord => store[k].ReleaseDate # ZeroTime)
  /\ [][\A p \in Procs :
         /\ (loop[p].pc = "idle" /\ loop'[p].handler = "subscribe") =>
              LET future == FutureIn(io'.resp, clock)
                  release == loop'[p].release
              IN /\ io'.op = "query" /\ io'.now = clock
                 /\ (Cardinality(future) = 0) =
                      (loop'[p].text = "No movie releases found :(")
                 /\ (Cardinality(future) = 1) = (release # NoRecord)
                 /\ release # NoRecord =>
                      /\ loop'[p].pc = "txget"
                      /\ release.ReleaseDate # ZeroTime
                      /\ release.ReleaseDate > clock
                      /\ \E i \in future :
                           /\ release.ID = io'.resp.results[i].ID
                           /\ release.ReleaseDate =
                                TimeOf[io'.resp.results[i].ReleaseDate]
         /\ (loop[p].pc \in {"txget", "commit"} /\ loop'[p].pc # "idle") =>
              loop'[p].release = loop[p].release
         /\ (loop[p].handler = "subscribe" /\ loop'[p] # loop[p]) =>
              \A k \in IDs :
                store'[k] # store[k] =>
                  /\ loop[p].pc = "commit" /\ k = loop[p].release.ID
                  /\ store[k] = NoRecord =>
                       store'[k].ReleaseDate = loop[p].release.ReleaseDate]_vars
  /\ [][\A k \in IDs :
         (store[k] = NoRecord /\ store'[k] # NoRecord) =>
           \E p \in Procs : /\ loop[p].pc = "commit" /\ loop'[p].pc = "reply"
                            /\ loop[p].release.ID = k]_vars

\* a subscribe was offered a candidate that is not to come next to one that
\* is, and goes on to the upsert for the latter
C20_Witness ==
  /\ io.op = "query" /\ io.who = 1
  /\ loop[1].pc = "txget"
  /\ \E i \in 1..Len(io.resp.results) : i \notin FutureIn(io.resp, io.now)
  /\ loop[1].release.ReleaseDate > io.now
  /\ store[loop[1].release.ID] = NoRecord

\* the branch every message of the specifications is expected to take
BranchOf == [msg \in Messages |-> Expected(msg).handler]

\* C21: each non-empty text message that is processed without error gets
\* exactly one reply, sent to the chat it came from, whichever branch
\* handles it: the loop takes up only updates with a non-empty text; from
\* there to the return to the loop the chat and the message stay the same,
\* nothing is sent before the last step, and the last step is either the
\* send of the reply to that chat or a fatal error; nothing is sent to a
\* chat otherwise. An update with no message or with an empty text gets no
\* reply and no store access: the loop and the store are as before.
C21_OneReply ==
  [][/\ \A p \in Procs :
          (loop[p].pc = "idle" /\ loop'[p].pc # "idle") =>
            /\ loop'[p].update # ""
            /\ loop'[p].handler = BranchOf[loop'[p].update]
            /\ loop'[p].chat \in Chats
            /\ io'.op \notin {"send", "skip"}
     /\ \A p \in Procs :
          (loop[p].pc # "idle" /\ loop'[p] # loop[p]) =>
            IF loop'[p].pc # "idle"
            THEN /\ loop'[p].chat = loop[p].chat
                 /\ loop'[p].update = loop[p].update
                 /\ io'.op \notin {"send", "skip"}
            ELSE \/ /\ loop[p].pc = "reply"
                    /\ alive'[p]
                    /\ io' = SendIO(loop[p].chat, loop[p].text)
                    /\ store' = store
                 \/ /\ ~alive'[p]
                    /\ io'.op = "fatal" /\ io'.who = p
                    /\ store' = store
     /\ io'.op = "send" =>
          \E p \in Procs : /\ loop[p].pc = "reply" /\ loop'[p].pc = "idle"
                           /\ io'.chat = loop[p].chat
     /\ io'.op = "skip" =>
          /\ ~io'.update.Message \/ io'.update.Text = ""
          /\ loop' = loop /\ store' = store /\ sent' = sent /\ acked' = acked
          /\ alive' = alive /\ task' = task
    ]_vars

\* the second chat has just been sent the one reply to its subscribe, which
\* made it the only Subscriber of the record
C21_Witness ==
  /\ io = SendIO(2, "Done!")
  /\ loop[1] = IdleLoop /\ alive[1]
  /\ ChatsOf(store[1]) = {2}

====
